---- MODULE Spec2Model ----
(***************************************************************************)
(* The shop schema of src/shop/models.py as a state machine over its       *)
(* tables.  A row is a record; a table is a set of rows.  The operations   *)
(* are the ORM's writes on each model: Model.save() (INSERT / UPDATE,      *)
(* guarded by the constraints the schema puts in the database: UNIQUE,     *)
(* FOREIGN KEY, and the CHECK (col >= 0) of a PositiveIntegerField),       *)
(* optionally preceded by Model.full_clean() (which runs the field         *)
(* validators declared with validators=[...]), Model.delete() (the         *)
(* on_delete policy of every relation pointing at the row: CASCADE,        *)
(* PROTECT, SET_NULL), and the ProductQuerySet helpers.                    *)
(*                                                                         *)
(* Columns that no constraint, relation or query of the file reads         *)
(* (free-text descriptions, contact fields, timestamps) are left out of    *)
(* the rows.                                                               *)
(***************************************************************************)
EXTENDS Integers, FiniteSets, Sequences, TLC

VARIABLES users, categories, suppliers, products, productDetails,
          productSuppliers, tags, productTags, customers, orders,
          orderItems, reviews, seq, last, result

tables == <<users, categories, suppliers, products, productDetails,
            productSuppliers, tags, productTags, customers, orders,
            orderItems, reviews>>

vars == <<users, categories, suppliers, products, productDetails,
          productSuppliers, tags, productTags, customers, orders,
          orderItems, reviews, seq, last, result>>

(***************************************************************************)
(* Bounds of the model.                                                    *)
(***************************************************************************)
\* products the writers of SpecProduct insert
MaxProducts == 3
\* products the writers of SpecAmounts insert
MaxPriced == 2

(***************************************************************************)
(* Program constants.                                                      *)
(***************************************************************************)
\* null=True: the empty reference (primary keys start at 1)
NULL == 0
\* MinValueValidator(0) on Product.price
MinPrice == 0
\* MinValueValidator(1) on OrderItem.quantity
MinQuantity == 1
\* MinValueValidator(1), MaxValueValidator(5) on Review.rating
MinRating == 1
MaxRating == 5

TableNames == {"user", "category", "supplier", "product", "productDetail",
               "productSupplier", "tag", "productTag", "customer", "order",
               "orderItem", "review"}

Ids(table) == {r.id : r \in table}

Row(table, id) == CHOOSE r \in table : r.id = id

(***************************************************************************)
(* The outcome of the last operation: the exception it raised (or "ok"),   *)
(* the constraints or validators the exception names, and the operation's  *)
(* argument.                                                               *)
(***************************************************************************)
Outcome(op, status, codes, arg) ==
    [op |-> op, status |-> status, codes |-> codes, arg |-> arg]

Reject(op, status, codes, arg) ==
    /\ last' = Outcome(op, status, codes, arg)
    /\ UNCHANGED <<tables, seq, result>>

(***************************************************************************)
(* Product: field validators (full_clean) and database constraints (save). *)
(***************************************************************************)
\* UniqueConstraint(fields=["name", "category"]): another row holds the pair
ProductDuplicate(row, tbl) ==
    \E q \in tbl : q.id # row.id /\ q.name = row.name /\ q.category = row.category

\* Model.full_clean(): clean_fields, then the unique checks on the fields
\* that passed clean_fields.  Every error found is reported.
ProductCleanErrors(row, tbl, cats) ==
    LET fk == row.category \notin Ids(cats)
    IN  (IF row.price < MinPrice THEN {"min_value:price"} ELSE {})
        \cup (IF row.stock_quantity < 0 THEN {"min_value:stock_quantity"} ELSE {})
        \cup (IF fk THEN {"invalid:category"} ELSE {})
        \cup (IF ~fk /\ ProductDuplicate(row, tbl) THEN {"unique"} ELSE {})

\* Mutant: the composite unique index missing from the table.
ProductDbErrorsNoUnique(row, tbl, cats) ==
    (IF row.stock_quantity < 0 THEN {"check:stock_quantity"} ELSE {})
    \cup (IF row.category \notin Ids(cats) THEN {"fk:category"} ELSE {})

\* The constraints the database holds for the product table: the CHECK of
\* PositiveIntegerField, the foreign key, the composite unique index.
\* (price has a validator only, so no constraint of the table reads it.)
ProductDbErrors(row, tbl, cats) ==
    (IF row.stock_quantity < 0 THEN {"check:stock_quantity"} ELSE {})
    \cup (IF row.category \notin Ids(cats) THEN {"fk:category"} ELSE {})
    \cup (IF ProductDuplicate(row, tbl) THEN {"unique"} ELSE {})

ProductRow(id, name, category, price, stock, active, user) ==
    [id |-> id, name |-> name, category |-> category, price |-> price,
     stock_quantity |-> stock, is_active |-> active, created_by |-> user]

\* Product(...).save() on a new instance, after full_clean() when clean.
CreateProduct(name, category, price, stock, user, clean) ==
    LET row   == ProductRow(seq["product"] + 1, name, category, price, stock, TRUE, user)
        verrs == ProductCleanErrors(row, products, categories)
        derrs == ProductDbErrors(row, products, categories)
    IN  IF clean /\ verrs # {}
        THEN Reject("CreateProduct", "ValidationError", verrs, row)
        ELSE IF derrs # {}
        THEN \E e \in derrs : Reject("CreateProduct", "IntegrityError", {e}, row)
        ELSE /\ products' = products \cup {row}
             /\ seq' = [seq EXCEPT !["product"] = @ + 1]
             /\ last' = Outcome("CreateProduct", "ok", {}, row)
             /\ UNCHANGED <<users, categories, suppliers, productDetails,
                            productSuppliers, tags, productTags, customers,
                            orders, orderItems, reviews, result>>

\* Product.objects.get(pk=id), its fields assigned, then save() (after
\* full_clean() when clean): UPDATE of the row.
UpdateProduct(id, name, category, price, stock, active, clean) ==
    IF id \notin Ids(products)
    THEN Reject("UpdateProduct", "DoesNotExist", {}, [id |-> id])
    ELSE
    LET old   == Row(products, id)
        row   == ProductRow(id, name, category, price, stock, active, old.created_by)
        verrs == ProductCleanErrors(row, products, categories)
        derrs == ProductDbErrors(row, products, categories)
    IN  IF clean /\ verrs # {}
        THEN Reject("UpdateProduct", "ValidationError", verrs, row)
        ELSE IF derrs # {}
        THEN \E e \in derrs : Reject("UpdateProduct", "IntegrityError", {e}, row)
        ELSE /\ products' = (products \ {old}) \cup {row}
             /\ last' = Outcome("UpdateProduct", "ok", {}, row)
             /\ UNCHANGED <<users, categories, suppliers, productDetails,
                            productSuppliers, tags, productTags, customers,
                            orders, orderItems, reviews, seq, result>>

(***************************************************************************)
(* Review and OrderItem: validators and database constraints.              *)
(* (OrderItem.unit_price and ProductSupplier.purchase_price carry a        *)
(* validator only and no constraint; the rows leave them out.)             *)
(***************************************************************************)
\* full_clean() of a Review: MinValueValidator(1), MaxValueValidator(5), and
\* the existence of both referenced rows.
ReviewCleanErrors(row, prods, custs) ==
    (IF row.rating < MinRating THEN {"min_value:rating"} ELSE {})
    \cup (IF row.rating > MaxRating THEN {"max_value:rating"} ELSE {})
    \cup (IF row.product \notin Ids(prods) THEN {"invalid:product"} ELSE {})
    \cup (IF row.customer \notin Ids(custs) THEN {"invalid:customer"} ELSE {})

\* The review table's constraints: rating is a plain IntegerField, so the
\* two foreign keys are all the database checks.
ReviewDbErrors(row, prods, custs) ==
    (IF row.product \notin Ids(prods) THEN {"fk:product"} ELSE {})
    \cup (IF row.customer \notin Ids(custs) THEN {"fk:customer"} ELSE {})

\* Review(...).save() on a new instance, after full_clean() when clean.
CreateReview(product, customer, rating, clean) ==
    LET row   == [id |-> seq["review"] + 1, product |-> product,
                  customer |-> customer, rating |-> rating]
        verrs == ReviewCleanErrors(row, products, customers)
        derrs == ReviewDbErrors(row, products, customers)
    IN  IF clean /\ verrs # {}
        THEN Reject("CreateReview", "ValidationError", verrs, row)
        ELSE IF derrs # {}
        THEN \E e \in derrs : Reject("CreateReview", "IntegrityError", {e}, row)
        ELSE /\ reviews' = reviews \cup {row}
             /\ seq' = [seq EXCEPT !["review"] = @ + 1]
             /\ last' = Outcome("CreateReview", "ok", {}, row)
             /\ UNCHANGED <<users, categories, suppliers, products,
                            productDetails, productSuppliers, tags,
                            productTags, customers, orders, orderItems,
                            result>>

\* UniqueConstraint(fields=["order", "product"])
OrderItemDuplicate(row, tbl) ==
    \E q \in tbl : q.id # row.id /\ q.order = row.order /\ q.product = row.product

\* full_clean() of an OrderItem: MinValueValidator(1) on quantity, the two
\* references, then the unique check when both references passed.
OrderItemCleanErrors(row, tbl, ords, prods) ==
    LET fk == row.order \notin Ids(ords) \/ row.product \notin Ids(prods)
    IN  (IF row.quantity < MinQuantity THEN {"min_value:quantity"} ELSE {})
        \cup (IF row.order \notin Ids(ords) THEN {"invalid:order"} ELSE {})
        \cup (IF row.product \notin Ids(prods) THEN {"invalid:product"} ELSE {})
        \cup (IF ~fk /\ OrderItemDuplicate(row, tbl) THEN {"unique"} ELSE {})

\* The order item table's constraints: CHECK (quantity >= 0) of
\* PositiveIntegerField, two foreign keys, the composite unique index.
OrderItemDbErrors(row, tbl, ords, prods) ==
    (IF row.quantity < 0 THEN {"check:quantity"} ELSE {})
    \cup (IF row.order \notin Ids(ords) THEN {"fk:order"} ELSE {})
    \cup (IF row.product \notin Ids(prods) THEN {"fk:product"} ELSE {})
    \cup (IF OrderItemDuplicate(row, tbl) THEN {"unique"} ELSE {})

\* OrderItem(...).save() on a new instance, after full_clean() when clean.
CreateOrderItem(order, product, quantity, clean) ==
    LET row   == [id |-> seq["orderItem"] + 1, order |-> order,
                  product |-> product, quantity |-> quantity]
        verrs == OrderItemCleanErrors(row, orderItems, orders, products)
        derrs == OrderItemDbErrors(row, orderItems, orders, products)
    IN  IF clean /\ verrs # {}
        THEN Reject("CreateOrderItem", "ValidationError", verrs, row)
        ELSE IF derrs # {}
        THEN \E e \in derrs : Reject("CreateOrderItem", "IntegrityError", {e}, row)
        ELSE /\ orderItems' = orderItems \cup {row}
             /\ seq' = [seq EXCEPT !["orderItem"] = @ + 1]
             /\ last' = Outcome("CreateOrderItem", "ok", {}, row)
             /\ UNCHANGED <<users, categories, suppliers, products,
                            productDetails, productSuppliers, tags,
                            productTags, customers, orders, reviews, result>>

(***************************************************************************)
(* The links of a product: ProductDetail (one to one), ProductSupplier and *)
(* ProductTag (unique pairs).                                              *)
(***************************************************************************)
\* OneToOneField(Product): the product column is unique
CreateProductDetail(product) ==
    LET row   == [id |-> seq["productDetail"] + 1, product |-> product]
        derrs == (IF product \notin Ids(products) THEN {"fk:product"} ELSE {})
                 \cup (IF \E d \in productDetails : d.product = product
                       THEN {"unique"} ELSE {})
    IN  IF derrs # {}
        THEN \E e \in derrs : Reject("CreateProductDetail", "IntegrityError", {e}, row)
        ELSE /\ productDetails' = productDetails \cup {row}
             /\ seq' = [seq EXCEPT !["productDetail"] = @ + 1]
             /\ last' = Outcome("CreateProductDetail", "ok", {}, row)
             /\ UNCHANGED <<users, categories, suppliers, products,
                            productSuppliers, tags, productTags, customers,
                            orders, orderItems, reviews, result>>

\* UniqueConstraint(fields=["product", "supplier"])
CreateProductSupplier(product, supplier) ==
    LET row   == [id |-> seq["productSupplier"] + 1, product |-> product,
                  supplier |-> supplier]
        derrs == (IF product \notin Ids(products) THEN {"fk:product"} ELSE {})
                 \cup (IF supplier \notin Ids(suppliers) THEN {"fk:supplier"} ELSE {})
                 \cup (IF \E l \in productSuppliers :
                             l.product = product /\ l.supplier = supplier
                       THEN {"unique"} ELSE {})
    IN  IF derrs # {}
        THEN \E e \in derrs : Reject("CreateProductSupplier", "IntegrityError", {e}, row)
        ELSE /\ productSuppliers' = productSuppliers \cup {row}
             /\ seq' = [seq EXCEPT !["productSupplier"] = @ + 1]
             /\ last' = Outcome("CreateProductSupplier", "ok", {}, row)
             /\ UNCHANGED <<users, categories, suppliers, products,
                            productDetails, tags, productTags, customers,
                            orders, orderItems, reviews, result>>

\* UniqueConstraint(fields=["product", "tag"])
CreateProductTag(product, tag) ==
    LET row   == [id |-> seq["productTag"] + 1, product |-> product, tag |-> tag]
        derrs == (IF product \notin Ids(products) THEN {"fk:product"} ELSE {})
                 \cup (IF tag \notin Ids(tags) THEN {"fk:tag"} ELSE {})
                 \cup (IF \E l \in productTags : l.product = product /\ l.tag = tag
                       THEN {"unique"} ELSE {})
    IN  IF derrs # {}
        THEN \E e \in derrs : Reject("CreateProductTag", "IntegrityError", {e}, row)
        ELSE /\ productTags' = productTags \cup {row}
             /\ seq' = [seq EXCEPT !["productTag"] = @ + 1]
             /\ last' = Outcome("CreateProductTag", "ok", {}, row)
             /\ UNCHANGED <<users, categories, suppliers, products,
                            productDetails, productSuppliers, tags, customers,
                            orders, orderItems, reviews, result>>

(***************************************************************************)
(* Model.delete(): the deletion collector first collects the rows every    *)
(* relation pointing at the deleted row brings in (CASCADE), raises        *)
(* ProtectedError when a PROTECT relation still has rows, and only then    *)
(* deletes what it collected and nulls the SET_NULL references, in one     *)
(* transaction.                                                            *)
(***************************************************************************)
\* What Model.delete() returns: the number of rows it deleted.
DeleteResult(id, n) == [id |-> id, deleted |-> n]

\* The number of rows of `rows` that reference row `id` through column `col`
Collected(rows, col, id) == Cardinality({r \in rows : r[col] = id})

\* PROTECT: rows of `rows` reference row `id` through column `col`
Protects(rows, col, id) == \E r \in rows : r[col] = id

\* Mutant: the cascade applied before the PROTECT relations are looked at.
SurvivingEager(rows, col, id, blocked) == {r \in rows : r[col] # id}

\* Mutant: the cascade forgotten (DO_NOTHING), the deleted row itself gone.
SurvivingAll(rows, col, id, blocked) ==
    IF blocked \/ col # "id" THEN rows ELSE {r \in rows : r[col] # id}

\* CASCADE: what is left of `rows` when row `id` is deleted; nothing goes
\* when the delete is blocked.
Surviving(rows, col, id, blocked) ==
    IF blocked THEN rows ELSE {r \in rows : r[col] # id}

\* Mutant: the reference kept as it is (DO_NOTHING).
NulledKeep(rows, col, id) == rows

\* SET_NULL: the references to row `id` emptied, the rows kept.
Nulled(rows, col, id) ==
    {IF r[col] = id THEN [r EXCEPT ![col] = NULL] ELSE r : r \in rows}

\* Mutant: Product.category declared on_delete=CASCADE.
CategoryBlockedNever(id, prods) == FALSE

\* Product.category is PROTECT
CategoryBlocked(id, prods) == Protects(prods, "category", id)

\* OrderItem.product is PROTECT
ProductBlocked(id, items) == Protects(items, "product", id)

\* Order.customer is PROTECT
CustomerBlocked(id, ords) == Protects(ords, "customer", id)

\* Product.delete(): ProductDetail, ProductSupplier, ProductTag and Review
\* cascade; OrderItem protects.
DeleteProduct(id) ==
    IF id \notin Ids(products)
    THEN Reject("DeleteProduct", "DoesNotExist", {}, DeleteResult(id, 0))
    ELSE
    LET blocked == ProductBlocked(id, orderItems)
    IN  /\ products' = Surviving(products, "id", id, blocked)
        /\ productDetails' = Surviving(productDetails, "product", id, blocked)
        /\ productSuppliers' = Surviving(productSuppliers, "product", id, blocked)
        /\ productTags' = Surviving(productTags, "product", id, blocked)
        /\ reviews' = Surviving(reviews, "product", id, blocked)
        /\ last' = Outcome("DeleteProduct",
                           IF blocked THEN "ProtectedError" ELSE "ok", {},
                           DeleteResult(id, IF blocked THEN 0 ELSE 1
                               + Collected(productDetails, "product", id)
                               + Collected(productSuppliers, "product", id)
                               + Collected(productTags, "product", id)
                               + Collected(reviews, "product", id)))
        /\ UNCHANGED <<users, categories, suppliers, tags, customers, orders,
                       orderItems, seq, result>>

\* Category.delete(): Product protects.
DeleteCategory(id) ==
    IF id \notin Ids(categories)
    THEN Reject("DeleteCategory", "DoesNotExist", {}, DeleteResult(id, 0))
    ELSE
    LET blocked == CategoryBlocked(id, products)
    IN  /\ categories' = Surviving(categories, "id", id, blocked)
        /\ last' = Outcome("DeleteCategory",
                           IF blocked THEN "ProtectedError" ELSE "ok", {},
                           DeleteResult(id, IF blocked THEN 0 ELSE 1))
        /\ UNCHANGED <<users, suppliers, products, productDetails,
                       productSuppliers, tags, productTags, customers, orders,
                       orderItems, reviews, seq, result>>

\* Customer.delete(): Review cascades; Order protects.
DeleteCustomer(id) ==
    IF id \notin Ids(customers)
    THEN Reject("DeleteCustomer", "DoesNotExist", {}, DeleteResult(id, 0))
    ELSE
    LET blocked == CustomerBlocked(id, orders)
    IN  /\ customers' = Surviving(customers, "id", id, blocked)
        /\ reviews' = Surviving(reviews, "customer", id, blocked)
        /\ last' = Outcome("DeleteCustomer",
                           IF blocked THEN "ProtectedError" ELSE "ok", {},
                           DeleteResult(id, IF blocked THEN 0 ELSE 1 + Collected(reviews, "customer", id)))
        /\ UNCHANGED <<users, categories, suppliers, products, productDetails,
                       productSuppliers, tags, productTags, orders, orderItems,
                       seq, result>>

\* Supplier.delete(): ProductSupplier cascades; Category.main_supplier is
\* set to null.  No relation protects a supplier.
DeleteSupplier(id) ==
    IF id \notin Ids(suppliers)
    THEN Reject("DeleteSupplier", "DoesNotExist", {}, DeleteResult(id, 0))
    ELSE /\ suppliers' = Surviving(suppliers, "id", id, FALSE)
         /\ productSuppliers' = Surviving(productSuppliers, "supplier", id, FALSE)
         /\ categories' = Nulled(categories, "main_supplier", id)
         /\ last' = Outcome("DeleteSupplier", "ok", {},
                            DeleteResult(id, 1 + Collected(productSuppliers, "supplier", id)))
         /\ UNCHANGED <<users, products, productDetails, tags, productTags,
                        customers, orders, orderItems, reviews, seq, result>>

\* User.delete(): created_by of every tracked model is set to null.
DeleteUser(id) ==
    IF id \notin Ids(users)
    THEN Reject("DeleteUser", "DoesNotExist", {}, DeleteResult(id, 0))
    ELSE /\ users' = Surviving(users, "id", id, FALSE)
         /\ categories' = Nulled(categories, "created_by", id)
         /\ suppliers' = Nulled(suppliers, "created_by", id)
         /\ products' = Nulled(products, "created_by", id)
         /\ customers' = Nulled(customers, "created_by", id)
         /\ orders' = Nulled(orders, "created_by", id)
         /\ last' = Outcome("DeleteUser", "ok", {},
                            DeleteResult(id, 1))
         /\ UNCHANGED <<productDetails, productSuppliers, tags, productTags,
                        orderItems, reviews, seq, result>>

\* Order.delete(): OrderItem cascades.
DeleteOrder(id) ==
    IF id \notin Ids(orders)
    THEN Reject("DeleteOrder", "DoesNotExist", {}, DeleteResult(id, 0))
    ELSE /\ orders' = Surviving(orders, "id", id, FALSE)
         /\ orderItems' = Surviving(orderItems, "order", id, FALSE)
         /\ last' = Outcome("DeleteOrder", "ok", {},
                            DeleteResult(id, 1 + Collected(orderItems, "order", id)))
         /\ UNCHANGED <<users, categories, suppliers, products, productDetails,
                        productSuppliers, tags, productTags, customers,
                        reviews, seq, result>>

\* Tag.delete(): ProductTag cascades.
DeleteTag(id) ==
    IF id \notin Ids(tags)
    THEN Reject("DeleteTag", "DoesNotExist", {}, DeleteResult(id, 0))
    ELSE /\ tags' = Surviving(tags, "id", id, FALSE)
         /\ productTags' = Surviving(productTags, "tag", id, FALSE)
         /\ last' = Outcome("DeleteTag", "ok", {},
                            DeleteResult(id, 1 + Collected(productTags, "tag", id)))
         /\ UNCHANGED <<users, categories, suppliers, products, productDetails,
                        productSuppliers, customers, orders, orderItems,
                        reviews, seq, result>>

\* OrderItem.delete(): nothing references an order item.
DeleteOrderItem(id) ==
    IF id \notin Ids(orderItems)
    THEN Reject("DeleteOrderItem", "DoesNotExist", {}, DeleteResult(id, 0))
    ELSE /\ orderItems' = Surviving(orderItems, "id", id, FALSE)
         /\ last' = Outcome("DeleteOrderItem", "ok", {},
                            DeleteResult(id, 1))
         /\ UNCHANGED <<users, categories, suppliers, products, productDetails,
                        productSuppliers, tags, productTags, customers, orders,
                        reviews, seq, result>>

\* Review.delete(): nothing references a review.
DeleteReview(id) ==
    IF id \notin Ids(reviews)
    THEN Reject("DeleteReview", "DoesNotExist", {}, DeleteResult(id, 0))
    ELSE /\ reviews' = Surviving(reviews, "id", id, FALSE)
         /\ last' = Outcome("DeleteReview", "ok", {},
                            DeleteResult(id, 1))
         /\ UNCHANGED <<users, categories, suppliers, products, productDetails,
                        productSuppliers, tags, productTags, customers, orders,
                        orderItems, seq, result>>

(***************************************************************************)
(* ProductQuerySet: the query helpers, evaluated on a set of product rows. *)
(***************************************************************************)
\* Mutant: the stock test written >= 0.
availableAnyStock(qs) == {p \in qs : p.stock_quantity >= 0 /\ p.is_active = TRUE}

\* filter(stock_quantity__gt=0, is_active=True)
available(qs) == {p \in qs : p.stock_quantity > 0 /\ p.is_active = TRUE}

\* filter(price__gte=low, price__lte=high)
priced_between(qs, low, high) == {p \in qs : p.price >= low /\ p.price <= high}

\* by_tag() filters on tags__name.  Product declares no relation named tags
\* (the reverse name of ProductTag.product is product_tags), so the lookup
\* names no column and the helper has no model here.

\* The all-null review columns a product without reviews is joined to.
NoReview == [id |-> NULL, product |-> NULL, customer |-> NULL, rating |-> NULL]

\* Mutant: an INNER JOIN.
InnerJoinReviews(qs, revs) == {j \in qs \X revs : j[2].product = j[1].id}

\* annotate() over the reverse relation "reviews": product LEFT OUTER JOIN
\* review ON review.product_id = product.id.  Both aggregates read this one
\* join.
LeftJoinReviews(qs, revs) ==
    {j \in qs \X revs : j[2].product = j[1].id}
    \cup {<<p, NoReview>> : p \in {q \in qs : ~\E r \in revs : r.product = q.id}}

RECURSIVE SumRatings(_)
SumRatings(rows) ==
    IF rows = {} THEN 0
    ELSE LET r == CHOOSE x \in rows : TRUE
         IN  r.rating + SumRatings(rows \ {r})

RECURSIVE GCD(_, _)
GCD(a, b) == IF b = 0 THEN a ELSE GCD(b, a % b)

\* The value of a division, as the fraction in lowest terms.
Quotient(n, d) ==
    [null |-> FALSE, num |-> n \div GCD(n, d), den |-> d \div GCD(n, d)]

NullValue == [null |-> TRUE, num |-> 0, den |-> 1]

\* Count("reviews", distinct=True): the distinct non-null review ids of the group
CountDistinct(group) == Cardinality({r.id : r \in group} \ {NULL})

\* Avg("reviews__rating"): the mean of the group's non-null ratings, null
\* when there is none
Avg(group) ==
    LET vals == {r \in group : r.id # NULL}
    IN  IF vals = {} THEN NullValue
        ELSE Quotient(SumRatings(vals), Cardinality(vals))

\* annotate(review_count=Count(...), avg_rating=Avg(...)): GROUP BY product
with_rating(qs, revs) ==
    LET joined == LeftJoinReviews(qs, revs)
        group(p) == {j[2] : j \in {k \in joined : k[1] = p}}
    IN  {[product |-> p, review_count |-> CountDistinct(group(p)),
          avg_rating |-> Avg(group(p))] : p \in {j[1] : j \in joined}}

\* Evaluating Product.objects ... .available()
Available(qs) ==
    /\ result' = [op |-> "available", qs |-> qs, rows |-> available(qs)]
    /\ UNCHANGED <<tables, seq, last>>

\* Evaluating Product.objects ... .with_rating()
WithRating(qs) ==
    /\ result' = [op |-> "with_rating", qs |-> qs, rows |-> with_rating(qs, reviews)]
    /\ UNCHANGED <<tables, seq, last>>

(***************************************************************************)
(* Fixtures: rows the specifications start from.                           *)
(***************************************************************************)
NoSeq == [t \in TableNames |-> 0]

NoOutcome == Outcome("none", "ok", {}, DeleteResult(NULL, 0))

NoResult == [op |-> "none", qs |-> {}, rows |-> {}]

CategoryRow(id, name, supplier, user) ==
    [id |-> id, name |-> name, main_supplier |-> supplier, created_by |-> user,
     is_active |-> TRUE]

UserRow(id) == [id |-> id]

SupplierRow(id, user) ==
    [id |-> id, company_name |-> ToString(id), created_by |-> user,
     is_active |-> TRUE]

CustomerRow(id, user) ==
    [id |-> id, email |-> ToString(id), created_by |-> user, is_active |-> TRUE]

OrderRow(id, customer, user) ==
    [id |-> id, customer |-> customer, status |-> "pending",
     created_by |-> user, is_active |-> TRUE]

TagRow(id) == [id |-> id, name |-> ToString(id)]

\* Product i of a fixture: the (name, category) pairs differ
FixtureProduct(i, stock, active, user) ==
    ProductRow(i, IF i % 2 = 1 THEN "a" ELSE "b", (i + 1) \div 2, 0, stock,
               active, user)

FixtureCategories(n) ==
    {CategoryRow(c, ToString(c), NULL, NULL) : c \in 1..((n + 1) \div 2)}

ProductNames == {"a", "b"}

\* what a writer submits as a price or a stock
Amounts == {0 - 1, 0, 1}

(***************************************************************************)
(* Writers creating, updating and deleting the products of two categories: *)
(* SpecProduct varies what the uniqueness constraint reads, SpecAmounts    *)
(* what the range checks read.                                             *)
(***************************************************************************)
InitProduct ==
    /\ users = {}
    /\ categories = FixtureCategories(3)
    /\ suppliers = {} /\ products = {} /\ productDetails = {}
    /\ productSuppliers = {} /\ tags = {} /\ productTags = {}
    /\ customers = {} /\ orders = {} /\ orderItems = {} /\ reviews = {}
    /\ seq = NoSeq /\ last = NoOutcome /\ result = NoResult

ProductWrites(names, prices, stocks, cap) ==
    \/ \E n \in names, c \in Ids(categories), pr \in prices, st \in stocks,
          clean \in BOOLEAN :
          /\ seq["product"] < cap
          /\ CreateProduct(n, c, pr, st, NULL, clean)
    \/ \E id \in Ids(products), n \in names, c \in Ids(categories), pr \in prices,
          st \in stocks, clean \in BOOLEAN :
          UpdateProduct(id, n, c, pr, st, TRUE, clean)
    \/ \E id \in 1..cap : DeleteProduct(id)

NextProduct == ProductWrites(ProductNames, {0 - 1, 0}, {0}, MaxProducts)

SpecProduct == InitProduct /\ [][NextProduct]_vars

NextAmounts == ProductWrites({"a"}, Amounts, Amounts, MaxPriced)

SpecAmounts == InitProduct /\ [][NextAmounts]_vars

(***************************************************************************)
(* SpecReview: writers creating and deleting reviews of two products.      *)
(***************************************************************************)
\* reviews the table receives in SpecReview
MaxReviews == 2

\* the ratings a writer submits: one below the validators' range to one above
Ratings == (MinRating - 1)..(MaxRating + 1)

InitReview ==
    /\ users = {}
    /\ categories = FixtureCategories(2)
    /\ products = {FixtureProduct(i, 1, TRUE, NULL) : i \in 1..2}
    /\ customers = {CustomerRow(1, NULL)}
    /\ suppliers = {} /\ productDetails = {} /\ productSuppliers = {}
    /\ tags = {} /\ productTags = {} /\ orders = {} /\ orderItems = {}
    /\ reviews = {}
    /\ seq = [NoSeq EXCEPT !["product"] = 2, !["category"] = 1, !["customer"] = 1]
    /\ last = NoOutcome /\ result = NoResult

NextReview ==
    \/ \E p \in Ids(products), c \in Ids(customers), rating \in Ratings,
          clean \in BOOLEAN :
          /\ seq["review"] < MaxReviews
          /\ CreateReview(p, c, rating, clean)
    \/ \E id \in 1..MaxReviews : DeleteReview(id)

SpecReview == InitReview /\ [][NextReview]_vars

(***************************************************************************)
(* SpecOrderItem: writers adding items to two orders and removing them.    *)
(***************************************************************************)
\* order items the table receives in SpecOrderItem
MaxOrderItems == 3

\* the quantities a writer submits
Quantities == {0 - 1, 0, 1, 2}

InitOrderItem ==
    /\ users = {}
    /\ categories = FixtureCategories(2)
    /\ products = {FixtureProduct(i, 1, TRUE, NULL) : i \in 1..2}
    /\ customers = {CustomerRow(1, NULL)}
    /\ orders = {OrderRow(o, 1, NULL) : o \in 1..2}
    /\ suppliers = {} /\ productDetails = {} /\ productSuppliers = {}
    /\ tags = {} /\ productTags = {} /\ orderItems = {} /\ reviews = {}
    /\ seq = [NoSeq EXCEPT !["product"] = 2, !["category"] = 1,
                           !["customer"] = 1, !["order"] = 2]
    /\ last = NoOutcome /\ result = NoResult

NextOrderItem ==
    \/ \E o \in Ids(orders), p \in Ids(products), q \in Quantities,
          clean \in BOOLEAN :
          /\ seq["orderItem"] < MaxOrderItems
          /\ CreateOrderItem(o, p, q, clean)
    \/ \E id \in 1..MaxOrderItems : DeleteOrderItem(id)

SpecOrderItem == InitOrderItem /\ [][NextOrderItem]_vars

(***************************************************************************)
(* SpecAvailable: available() on every subset of every small product       *)
(* table.                                                                  *)
(***************************************************************************)
\* products in the table of SpecAvailable
MaxCatalog == 3
\* largest stock of a product there
MaxStock == 2

InitAvailable ==
    /\ \E n \in 0..MaxCatalog :
       \E stock \in [1..n -> 0..MaxStock], active \in [1..n -> BOOLEAN] :
          /\ products = {FixtureProduct(i, stock[i], active[i], NULL) : i \in 1..n}
          /\ seq = [NoSeq EXCEPT !["product"] = n,
                                 !["category"] = (MaxCatalog + 1) \div 2]
    /\ categories = FixtureCategories(MaxCatalog)
    /\ users = {} /\ suppliers = {} /\ productDetails = {}
    /\ productSuppliers = {} /\ tags = {} /\ productTags = {}
    /\ customers = {} /\ orders = {} /\ orderItems = {} /\ reviews = {}
    /\ last = NoOutcome /\ result = NoResult

NextAvailable == \E qs \in SUBSET products : Available(qs)

SpecAvailable == InitAvailable /\ [][NextAvailable]_vars

(***************************************************************************)
(* SpecRating: with_rating() on every subset of two products, over every   *)
(* small review table.                                                     *)
(***************************************************************************)
\* reviews in the table of SpecRating
MaxRated == 3

InitRating ==
    /\ \E n \in 0..MaxRated :
       \E prod \in [1..n -> 1..2], rating \in [1..n -> MinRating..MaxRating] :
          /\ reviews = {[id |-> i, product |-> prod[i], customer |-> 1,
                         rating |-> rating[i]] : i \in 1..n}
          /\ seq = [NoSeq EXCEPT !["product"] = 2, !["category"] = 1,
                                 !["customer"] = 1, !["review"] = n]
    /\ categories = FixtureCategories(2)
    /\ products = {FixtureProduct(i, 1, TRUE, NULL) : i \in 1..2}
    /\ customers = {CustomerRow(1, NULL)}
    /\ users = {} /\ suppliers = {} /\ productDetails = {}
    /\ productSuppliers = {} /\ tags = {} /\ productTags = {}
    /\ orders = {} /\ orderItems = {}
    /\ last = NoOutcome /\ result = NoResult

NextRating ==
    \/ \E qs \in SUBSET products : WithRating(qs)
    \/ \E id \in 1..MaxRated : DeleteReview(id)

SpecRating == InitRating /\ [][NextRating]_vars

(***************************************************************************)
(* SpecDeleteProduct: products with and without dependent rows and order   *)
(* items, deleted while order items are removed.                           *)
(***************************************************************************)
\* products in the fixture of the delete specifications
NumProducts == 2

DependentKinds == {"detail", "supplier", "tag", "review"}

\* The fixture: the products of `having` own a row of every kind in `kinds`
\* (two reviews, one row of the other kinds); the products of `ordered` are
\* on order 1.  Row i of a dependent table belongs to product i, and so does
\* review NumProducts + i.
ProductFixture(kinds, having, ordered) ==
    /\ users = {}
    /\ categories = FixtureCategories(NumProducts)
    /\ products = {FixtureProduct(i, 1, TRUE, NULL) : i \in 1..NumProducts}
    /\ suppliers = {SupplierRow(1, NULL)}
    /\ tags = {TagRow(1)}
    /\ customers = {CustomerRow(1, NULL)}
    /\ orders = {OrderRow(1, 1, NULL)}
    /\ productDetails =
          {[id |-> i, product |-> i] : i \in IF "detail" \in kinds THEN having ELSE {}}
    /\ productSuppliers =
          {[id |-> i, product |-> i, supplier |-> 1] :
              i \in IF "supplier" \in kinds THEN having ELSE {}}
    /\ productTags =
          {[id |-> i, product |-> i, tag |-> 1] :
              i \in IF "tag" \in kinds THEN having ELSE {}}
    /\ reviews =
          {[id |-> i, product |-> i, customer |-> 1, rating |-> 3] :
              i \in IF "review" \in kinds THEN having ELSE {}}
          \cup {[id |-> NumProducts + i, product |-> i, customer |-> 1,
                 rating |-> 5] : i \in IF "review" \in kinds THEN having ELSE {}}
    /\ orderItems =
          {[id |-> i, order |-> 1, product |-> i, quantity |-> 1] : i \in ordered}
    /\ seq = [t \in TableNames |->
                 IF t \in {"product", "productDetail", "productSupplier",
                           "productTag", "orderItem"}
                 THEN NumProducts
                 ELSE IF t = "review" THEN 2 * NumProducts
                 ELSE IF t = "category" THEN (NumProducts + 1) \div 2
                 ELSE IF t = "user" THEN 0 ELSE 1]
    /\ last = NoOutcome /\ result = NoResult

InitDeleteProduct ==
    \E kinds \in SUBSET DependentKinds, having \in SUBSET (1..NumProducts),
       ordered \in SUBSET (1..NumProducts) :
       ProductFixture(kinds, having, ordered)

NextDeleteProduct ==
    \/ \E id \in 1..NumProducts : DeleteProduct(id)
    \/ \E id \in 1..NumProducts : DeleteOrderItem(id)

SpecDeleteProduct == InitDeleteProduct /\ [][NextDeleteProduct]_vars

(***************************************************************************)
(* SpecAtomic: every product owns one row of every kind and product 1 is   *)
(* on order 1; writers delete products and add order items, reviews and    *)
(* tag links, valid and invalid.                                           *)
(***************************************************************************)
\* rows a writer adds to a dependent table on top of the fixture's
MaxNew == 1

InitAtomic == ProductFixture(DependentKinds, 1..NumProducts, {1})

NextAtomic ==
    \/ \E id \in 1..NumProducts : DeleteProduct(id)
    \/ \E p \in Ids(products), q \in {0, 1}, clean \in BOOLEAN :
          /\ seq["orderItem"] < NumProducts + MaxNew
          /\ CreateOrderItem(1, p, q, clean)
    \/ \E p \in Ids(products), rating \in {MinRating, MaxRating + 1},
          clean \in BOOLEAN :
          /\ seq["review"] < 2 * NumProducts + MaxNew
          /\ CreateReview(p, 1, rating, clean)
    \/ \E p \in Ids(products) :
          /\ seq["productTag"] < NumProducts + MaxNew
          /\ CreateProductTag(p, 1)
    \/ \E n \in ProductNames, pr \in {0 - 1, 0}, clean \in BOOLEAN :
          /\ seq["product"] < NumProducts + MaxNew
          /\ CreateProduct(n, 1, pr, 0, NULL, clean)

SpecAtomic == InitAtomic /\ [][NextAtomic]_vars

(***************************************************************************)
(* SpecProtect: categories with and without products, customers with and   *)
(* without orders and reviews, deleted while products and orders go.       *)
(***************************************************************************)
NumCategories == (NumProducts + 1) \div 2 + 1

Customers == {1, 2}

\* The fixture: the products of `present` are stored (the last category has
\* none); customer c of `buyers` placed order c, which holds product 1 when
\* that is stored; customer c of `reviewers` reviewed every stored product.
InitProtect ==
    \E present \in SUBSET (1..NumProducts), buyers \in SUBSET Customers,
       reviewers \in SUBSET Customers :
       /\ users = {}
       /\ categories = {CategoryRow(c, ToString(c), NULL, NULL) : c \in 1..NumCategories}
       /\ products = {FixtureProduct(i, 1, TRUE, NULL) : i \in present}
       /\ customers = {CustomerRow(c, NULL) : c \in Customers}
       /\ orders = {OrderRow(c, c, NULL) : c \in buyers}
       /\ orderItems = {[id |-> c, order |-> c, product |-> 1, quantity |-> 1] :
                           c \in IF 1 \in present THEN buyers ELSE {}}
       /\ reviews = {[id |-> 2 * (p - 1) + c, product |-> p, customer |-> c,
                      rating |-> 3] : p \in present, c \in reviewers}
       /\ suppliers = {} /\ productDetails = {} /\ productSuppliers = {}
       /\ tags = {} /\ productTags = {}
       /\ seq = [t \in TableNames |->
                    IF t = "product" THEN NumProducts
                    ELSE IF t = "category" THEN NumCategories
                    ELSE IF t \in {"customer", "order", "orderItem"} THEN 2
                    ELSE IF t = "review" THEN 2 * NumProducts
                    ELSE 0]
       /\ last = NoOutcome /\ result = NoResult

NextProtect ==
    \/ \E id \in 1..NumCategories : DeleteCategory(id)
    \/ \E id \in Customers : DeleteCustomer(id)
    \/ \E id \in 1..NumProducts : DeleteProduct(id)
    \/ \E id \in Customers : DeleteOrder(id)

SpecProtect == InitProtect /\ [][NextProtect]_vars

(***************************************************************************)
(* SpecNullify: suppliers that categories name as main supplier, and user  *)
(* accounts that created tracked rows, deleted.                            *)
(***************************************************************************)
\* user accounts in the fixture of SpecNullify
NumUsers == 1

Suppliers == {1, 2}

Tracked == {"category", "supplier", "product", "customer", "order"}

\* The fixture: category c names main[c] as its main supplier (or none);
\* the rows of tracked model t were created by account by[t] (or by none);
\* supplier s delivers product s.
InitNullify ==
    \E main \in [1..2 -> {NULL} \cup Suppliers], by \in [Tracked -> 0..NumUsers] :
       /\ users = {UserRow(u) : u \in 1..NumUsers}
       /\ suppliers = {SupplierRow(s, by["supplier"]) : s \in Suppliers}
       /\ categories = {CategoryRow(c, ToString(c), main[c], by["category"]) : c \in 1..2}
       /\ products = {ProductRow(i, "a", i, 0, 1, TRUE, by["product"]) : i \in 1..2}
       /\ productSuppliers = {[id |-> s, product |-> s, supplier |-> s] : s \in Suppliers}
       /\ customers = {CustomerRow(1, by["customer"])}
       /\ orders = {OrderRow(1, 1, by["order"])}
       /\ productDetails = {} /\ tags = {} /\ productTags = {}
       /\ orderItems = {} /\ reviews = {}
       /\ seq = [t \in TableNames |->
                    IF t \in {"supplier", "category", "product", "productSupplier"} THEN 2
                    ELSE IF t = "user" THEN NumUsers
                    ELSE IF t \in {"customer", "order"} THEN 1
                    ELSE 0]
       /\ last = NoOutcome /\ result = NoResult

NextNullify ==
    \/ \E id \in Suppliers : DeleteSupplier(id)
    \/ \E id \in 1..NumUsers : DeleteUser(id)

SpecNullify == InitNullify /\ [][NextNullify]_vars

(***************************************************************************)
(* Properties.                                                             *)
(***************************************************************************)

\* C1: every stored Product has price >= 0 and stock_quantity >= 0, and no
\* write (create or update) of a negative price or a negative stock succeeds.
C1_AmountsNonNegative ==
    /\ \A p \in products : p.price >= 0 /\ p.stock_quantity >= 0
    /\ (last.op \in {"CreateProduct", "UpdateProduct"} /\ last.status = "ok")
          => (last.arg.price >= 0 /\ last.arg.stock_quantity >= 0)

C2_NoDuplicates ==
    \A p \in products, q \in products :
        (p.name = q.name /\ p.category = q.category) => p = q

C2_InsertStep ==
    last'.op = "CreateProduct" =>
        LET a     == last'.arg
            dup   == \E q \in products : q.name = a.name /\ q.category = a.category
            valid == /\ a.price >= MinPrice /\ a.stock_quantity >= 0
                     /\ a.category \in Ids(categories)
        IN  /\ dup => (last'.status # "ok" /\ products' = products)
            /\ (dup /\ valid) => last'.codes = {"unique"}
            /\ ~dup => "unique" \notin last'.codes
            /\ (~dup /\ valid) => (last'.status = "ok" /\ a \in products')

\* C2: no two stored Products ever share (name, category), whatever the
\* writers insert, update and delete; an insert of a pair that is stored is
\* rejected, with the uniqueness violation when nothing else is wrong with
\* the row, and an insert of a pair that is not stored (the same name in
\* another category) is never rejected for uniqueness and succeeds when the
\* row is valid.
C2_UniqueNameCategory == []C2_NoDuplicates /\ [][C2_InsertStep]_vars

\* A duplicate insert was just rejected for uniqueness alone while one name
\* is stored in two categories.
C2_Witness ==
    /\ last.op = "CreateProduct" /\ last.codes = {"unique"}
    /\ \E p \in products, q \in products :
          p.name = q.name /\ p.category # q.category

C3_DeleteStep ==
    (last'.op = "DeleteProduct" /\ last'.arg.id \in Ids(products)) =>
        LET id == last'.arg.id
        IN  IF \E i \in orderItems : i.product = id
            THEN last'.status = "ProtectedError" /\ id \in Ids(products')
            ELSE /\ last'.status = "ok"
                 /\ products' = {p \in products : p.id # id}
                 /\ productDetails' = {d \in productDetails : d.product # id}
                 /\ productSuppliers' = {l \in productSuppliers : l.product # id}
                 /\ productTags' = {l \in productTags : l.product # id}
                 /\ reviews' = {r \in reviews : r.product # id}
                 /\ UNCHANGED <<users, categories, suppliers, tags, customers,
                                orders, orderItems>>

\* C3: deleting a stored Product that no OrderItem references succeeds and
\* removes the Product, its ProductDetail, its ProductSupplier and ProductTag
\* links and its Reviews, and nothing else; deleting a Product that an
\* OrderItem references fails and the Product stays.
C3_DeleteProductCascades == [][C3_DeleteStep]_vars

\* A product was just deleted together with its detail, its supplier link,
\* its tag link and its two reviews, and the rows of another product are all
\* still stored.
C3_Witness ==
    /\ last.op = "DeleteProduct" /\ last.status = "ok" /\ last.arg.deleted = 6
    /\ \E p \in products :
          /\ \E d \in productDetails : d.product = p.id
          /\ \E l \in productSuppliers : l.product = p.id
          /\ \E l \in productTags : l.product = p.id
          /\ \E r \in reviews : r.product = p.id

C4_DeleteStep ==
    /\ (last'.op = "DeleteCategory" /\ last'.arg.id \in Ids(categories)) =>
          LET id == last'.arg.id
          IN  IF \E p \in products : p.category = id
              THEN last'.status = "ProtectedError" /\ categories' = categories
              ELSE /\ last'.status = "ok"
                   /\ categories' = {c \in categories : c.id # id}
                   /\ products' = products
    /\ (last'.op = "DeleteCustomer" /\ last'.arg.id \in Ids(customers)) =>
          LET id == last'.arg.id
          IN  IF \E o \in orders : o.customer = id
              THEN /\ last'.status = "ProtectedError"
                   /\ customers' = customers /\ reviews' = reviews
              ELSE /\ last'.status = "ok"
                   /\ customers' = {c \in customers : c.id # id}
                   /\ reviews' = {r \in reviews : r.customer # id}
                   /\ orders' = orders

\* C4: deleting a Category that a Product references fails and deleting one
\* that no Product references succeeds; deleting a Customer that an Order
\* references fails, and deleting one that no Order references succeeds and
\* removes that customer's Reviews with it.
C4_ProtectedDeletes == [][C4_DeleteStep]_vars

\* A customer without orders was just deleted with its reviews, after an
\* empty category went, while a category with products is still stored.
C4_Witness ==
    /\ last.op = "DeleteCustomer" /\ last.status = "ok" /\ last.arg.deleted > 1
    /\ Cardinality(categories) < NumCategories
    /\ \E c \in categories : \E p \in products : p.category = c.id

\* C5: a Review is created exactly when its rating is in 1..5, so every
\* stored Review has 1 <= rating <= 5.
C5_RatingInRange ==
    /\ \A r \in reviews : r.rating >= MinRating /\ r.rating <= MaxRating
    /\ last.op = "CreateReview" =>
          (last.status = "ok" <=> last.arg.rating \in MinRating..MaxRating)

\* C6: an OrderItem of quantity 0 is not created and one of quantity 1 is,
\* unless its (order, product) pair is stored already; every (order, product)
\* pair has at most one OrderItem and every stored OrderItem has
\* quantity >= 1.
C6_OrderItemQuantity ==
    /\ \A i \in orderItems : i.quantity >= MinQuantity
    /\ \A i \in orderItems, j \in orderItems :
          (i.order = j.order /\ i.product = j.product) => i = j
    /\ (last.op = "CreateOrderItem" /\ last.arg.quantity = 0) => last.status # "ok"
    /\ (last.op = "CreateOrderItem" /\ last.arg.quantity = 1 /\ last.status # "ok")
          => \E i \in orderItems :
                i.order = last.arg.order /\ i.product = last.arg.product

C7_Exact ==
    result.op = "available" =>
        /\ result.rows \subseteq result.qs
        /\ \A p \in result.qs :
              /\ (p.stock_quantity > 0 /\ p.is_active) => p \in result.rows
              /\ (p.stock_quantity = 0 \/ ~p.is_active) => p \notin result.rows

C7_ReadOnly == (result' # result /\ result'.op = "available") => UNCHANGED tables

\* C7: available() returns exactly the products of the set with
\* stock_quantity > 0 and is_active: none of these is left out, none with
\* stock_quantity = 0 or is_active = false is returned, and no stored row
\* changes.
C7_Available == []C7_Exact /\ [][C7_ReadOnly]_vars

\* available() returned some but not all of a set that holds a product out
\* of stock and an inactive product in stock.
C7_Witness ==
    /\ result.op = "available" /\ result.rows # {}
    /\ \E a \in result.qs : a.stock_quantity = 0 /\ a.is_active
    /\ \E c \in result.qs : c.stock_quantity > 0 /\ ~c.is_active

C8_Annotated ==
    result.op = "with_rating" =>
        /\ \A p \in result.qs : Cardinality({x \in result.rows : x.product = p}) = 1
        /\ \A x \in result.rows :
              LET own == {r \in reviews : r.product = x.product.id}
                  n   == Cardinality(own)
              IN  /\ x.product \in result.qs
                  /\ x.review_count = n
                  /\ IF n = 0 THEN x.avg_rating.null
                     ELSE /\ ~x.avg_rating.null
                          /\ x.avg_rating.num * n = x.avg_rating.den * SumRatings(own)

\* C8: with_rating() returns every product of the set exactly once, with
\* review_count the number of Reviews of the product and avg_rating the sum
\* of their ratings divided by that number, null when the product has no
\* review.
C8_WithRating == [][result' # result => C8_Annotated']_vars

\* with_rating() returned a product rated 3 and 5 with review_count 2 and
\* avg_rating 4, and a product without reviews with review_count 0 and a null
\* avg_rating.
C8_Witness ==
    /\ result.op = "with_rating"
    /\ \E x \in result.rows, y \in result.rows :
          /\ {r.rating : r \in {s \in reviews : s.product = x.product.id}} = {3, 5}
          /\ x.review_count = 2
          /\ x.avg_rating = [null |-> FALSE, num |-> 4, den |-> 1]
          /\ y.review_count = 0 /\ y.avg_rating.null

\* The rows of table `before` are those of `after`, with column `col` emptied
\* where it held `id` and nothing else changed.
C9_OnlyNulled(before, after, col, id) ==
    /\ Cardinality(after) = Cardinality(before)
    /\ \A r \in before :
          [r EXCEPT ![col] = IF r[col] = id THEN NULL ELSE r[col]] \in after

C9_DeleteStep ==
    /\ (last'.op = "DeleteSupplier" /\ last'.arg.id \in Ids(suppliers)) =>
          LET id == last'.arg.id
          IN  /\ last'.status = "ok" /\ id \notin Ids(suppliers')
              /\ C9_OnlyNulled(categories, categories', "main_supplier", id)
              /\ products' = products
    /\ (last'.op = "DeleteUser" /\ last'.arg.id \in Ids(users)) =>
          LET id == last'.arg.id
          IN  /\ last'.status = "ok" /\ id \notin Ids(users')
              /\ C9_OnlyNulled(categories, categories', "created_by", id)
              /\ C9_OnlyNulled(suppliers, suppliers', "created_by", id)
              /\ C9_OnlyNulled(products, products', "created_by", id)
              /\ C9_OnlyNulled(customers, customers', "created_by", id)
              /\ C9_OnlyNulled(orders, orders', "created_by", id)

\* C9: deleting a Supplier always succeeds; every Category stays stored, with
\* main_supplier null where it named the supplier and every other field as
\* it was, and the Products are unchanged.  Deleting a user account leaves
\* every tracked row in place, with created_by null where it named the
\* account.
C9_SetNullDeletes == [][C9_DeleteStep]_vars

\* Supplier 1 was just deleted with its product link; a category has no main
\* supplier, and another still names supplier 2.
C9_Witness ==
    /\ last.op = "DeleteSupplier" /\ last.status = "ok" /\ last.arg.id = 1
    /\ last.arg.deleted = 2
    /\ \E c \in categories, d \in categories :
          c.main_supplier = NULL /\ d.main_supplier = 2

\* C10: an operation that is rejected leaves every table as it was: a
\* rejected Product delete removes neither the Product nor any of its
\* dependent rows, and a rejected insert adds no row.
C10_RejectedChangesNothing == [][last'.status # "ok" => UNCHANGED tables]_vars

\* The delete of a product on an order was just rejected and the product and
\* its detail, supplier link, tag link and reviews are stored.
C10_Witness ==
    /\ last.op = "DeleteProduct" /\ last.status = "ProtectedError"
    /\ last.arg.id \in Ids(products)
    /\ \E d \in productDetails : d.product = last.arg.id
    /\ \E l \in productSuppliers : l.product = last.arg.id
    /\ \E l \in productTags : l.product = last.arg.id
    /\ Cardinality({r \in reviews : r.product = last.arg.id}) >= 2

====
